---- MODULE Spec2Model ----
(***************************************************************************)
(* Content pipeline of the blog generator in src/main.go: metadata         *)
(* extraction, heading indexing, collection ranking, entity assembly and   *)
(* the repository scan.                                                    *)
(*                                                                         *)
(* A Go string is a sequence of tokens.  A token is a markup atom ("<!--", *)
(* "-->", "<h2>", ...), a metadata key with its colon ("date:") or a       *)
(* single character; characters are ordered as Go orders bytes.            *)
(* A file is a sequence of lines; the separators that strings.Split        *)
(* consumes are the "\n" tokens of the flat content.                       *)
(*                                                                         *)
(* The content roots follow the directory contract: posts/ and             *)
(* collections/ hold flat <slug>.html files, so a walk visits the root     *)
(* directory entry and then its files in lexical order.                    *)
(***************************************************************************)
EXTENDS Integers, Sequences, FiniteSets, TLC

VARIABLES
    postFiles,      \* posts/<slug>.html       : slug -> file state
    postsDirOk,     \* FALSE: reading the posts directory fails
    collFiles,      \* collections/<slug>.html : slug -> file state
    collsDirOk,     \* FALSE: reading the collections directory fails
    today,          \* time.Now().Format("2006-01-02")
    tiesReversed,   \* how this build's sort.Slice orders equal elements
    lastPosts,      \* outcome of the latest loadPosts call
    last,           \* outcome of the latest other pipeline call
    words,          \* input of the reading-time computation
    readTime,       \* its outcome, <<>> until computed
    body,           \* input of processContentWithTOC / extractContent
    tocOut,         \* outcome of processContentWithTOC
    contentOut      \* outcome of extractContent

vars == <<postFiles, postsDirOk, collFiles, collsDirOk, today, tiesReversed,
          lastPosts, last, words, readTime, body, tocOut, contentOut>>

dirVars == <<postFiles, postsDirOk, collFiles, collsDirOk, tiesReversed>>
pureVars == <<words, readTime, body, tocOut, contentOut>>

----------------------------------------------------------------------------
(* Bounds of the model *)

MaxDate == 3
MaxWords == 450
MaxBodyLen == 5
MaxContentLen == 5

----------------------------------------------------------------------------
(* Strings *)

None == [op |-> "none"]

EmptyStr == <<>>

\* The characters that occur in compared strings, in byte order.
ByteOrder == <<"-", "0", "1", "2", "3", "4", "5", "6", "7", "8", "9",
               "A", "M", "Z", "a", "b", "c", "d", "e">>

Ord(c) == CHOOSE i \in 1..Len(ByteOrder) : ByteOrder[i] = c

\* Go's string comparison a < b: bytewise lexicographic.
RECURSIVE StrLess(_, _)
StrLess(a, b) ==
    IF b = <<>> THEN FALSE
    ELSE IF a = <<>> THEN TRUE
    ELSE IF Head(a) # Head(b) THEN Ord(Head(a)) < Ord(Head(b))
    ELSE StrLess(Tail(a), Tail(b))

Reverse(s) == [i \in 1..Len(s) |-> s[Len(s) + 1 - i]]

\* strings.Split(content, "\n")
RECURSIVE SplitLines(_)
SplitLines(content) ==
    IF content = <<>> THEN << <<>> >>
    ELSE LET rest == SplitLines(Tail(content))
         IN IF Head(content) = "\n" THEN << <<>> >> \o rest
            ELSE << <<Head(content)>> \o rest[1] >> \o Tail(rest)

\* strings.Join(lines, "\n")
RECURSIVE JoinLines(_)
JoinLines(lines) ==
    IF lines = <<>> THEN <<>>
    ELSE IF Len(lines) = 1 THEN lines[1]
    ELSE lines[1] \o <<"\n">> \o JoinLines(Tail(lines))

----------------------------------------------------------------------------
(* Metadata extractor *)

KeyToken == [title |-> "title:", date |-> "date:",
             description |-> "description:", collection |-> "collection:"]

\* strings.HasPrefix(line, "<!-- " + key + ": ")
HasMetaPrefix(line, key) ==
    /\ Len(line) >= 2
    /\ line[1] = "<!--"
    /\ line[2] = KeyToken[key]

\* strings.TrimSuffix(s, " -->")
TrimSuffix(s) ==
    IF Len(s) > 0 /\ s[Len(s)] = "-->" THEN SubSeq(s, 1, Len(s) - 1) ELSE s

extractMeta(lines, key) ==
    IF \E i \in 1..Len(lines) : HasMetaPrefix(lines[i], key)
    THEN LET k == CHOOSE i \in 1..Len(lines) :
                      /\ HasMetaPrefix(lines[i], key)
                      /\ \A j \in 1..(i - 1) : ~HasMetaPrefix(lines[j], key)
         IN TrimSuffix(SubSeq(lines[k], 3, Len(lines[k])))
    ELSE EmptyStr

metaKeys == <<"title:", "date:", "description:", "collection:">>

\* the inner loop of extractContent: strings.Contains(line, key) for some key
IsMeta(line) ==
    \E k \in 1..Len(metaKeys) : \E i \in 1..Len(line) : line[i] = metaKeys[k]

\* variant: the key decides alone, wherever the line starts
DropsLineAnywhere(line) == IsMeta(line)

\* the line is skipped by extractContent
DropsLine(line) ==
    /\ Len(line) >= 1
    /\ line[1] = "<!--"
    /\ IsMeta(line)

RECURSIVE KeptLines(_)
KeptLines(lines) ==
    IF lines = <<>> THEN <<>>
    ELSE IF DropsLine(Head(lines)) THEN KeptLines(Tail(lines))
    ELSE <<Head(lines)>> \o KeptLines(Tail(lines))

extractContent(lines) == JoinLines(KeptLines(lines))

----------------------------------------------------------------------------
(* Heading indexer *)

OpenTag(level) == IF level = 2 THEN "<h2>" ELSE "<h3>"
CloseTag(level) == IF level = 2 THEN "</h2>" ELSE "</h3>"
\* the rewritten opening tag is  <hN id="  identifier  ">
OpenIdTag(level) == IF level = 2 THEN "<h2 id=" ELSE "<h3 id="
EndIdTag == ">"

IsSimpleTag(tok) == tok \in {"<h2>", "</h2>", "<h3>", "</h3>"}
IsOpenIdTag(tok) == tok \in {"<h2 id=", "<h3 id="}

\* regexp <[^>]*> replaced by "": a simple tag, or a rewritten opening tag up
\* to the ">" that ends it
RECURSIVE StripTags(_)
StripTags(s) ==
    IF s = <<>> THEN <<>>
    ELSE IF IsSimpleTag(Head(s)) THEN StripTags(Tail(s))
    ELSE IF IsOpenIdTag(Head(s))
              /\ \E i \in 2..Len(s) : s[i] = EndIdTag \/ IsSimpleTag(s[i])
         THEN LET k == CHOOSE i \in 2..Len(s) :
                           /\ (s[i] = EndIdTag \/ IsSimpleTag(s[i]))
                           /\ \A j \in 2..(i - 1) : ~(s[j] = EndIdTag \/ IsSimpleTag(s[j]))
              IN StripTags(SubSeq(s, k + 1, Len(s)))
    ELSE <<Head(s)>> \o StripTags(Tail(s))

\* strings.ToLower on one character
ToLower(c) == CASE c = "A" -> "a" [] c = "M" -> "m" [] c = "Z" -> "z" [] OTHER -> c

IsSpace(c) == c \in {" ", "\n"}

RECURSIVE TrimLeftSpace(_)
TrimLeftSpace(s) ==
    IF s # <<>> /\ IsSpace(Head(s)) THEN TrimLeftSpace(Tail(s)) ELSE s

\* strings.TrimSpace
TrimSpace(s) == Reverse(TrimLeftSpace(Reverse(TrimLeftSpace(s))))

IsAlnum(c) == c \in {"0", "1", "2", "3", "4", "5", "6", "7", "8", "9",
                     "a", "b", "c", "d", "e", "m", "z"}

\* regexp [^a-z0-9]+ replaced by "-"
RECURSIVE Hyphenate(_)
Hyphenate(s) ==
    IF s = <<>> THEN <<>>
    ELSE IF IsAlnum(Head(s)) THEN <<Head(s)>> \o Hyphenate(Tail(s))
    ELSE IF Len(s) >= 2 /\ ~IsAlnum(s[2]) THEN Hyphenate(Tail(s))
    ELSE <<"-">> \o Hyphenate(Tail(s))

RECURSIVE TrimLeftHyphen(_)
TrimLeftHyphen(s) ==
    IF s # <<>> /\ Head(s) = "-" THEN TrimLeftHyphen(Tail(s)) ELSE s

\* strings.Trim(text, "-")
TrimHyphens(s) == Reverse(TrimLeftHyphen(Reverse(TrimLeftHyphen(s))))

generateID(text) ==
    TrimHyphens(Hyphenate(TrimSpace([i \in 1..Len(StripTags(text)) |->
                                        ToLower(StripTags(text)[i])])))

\* <hN>(.*?)</hN> matches at position p of s: the nearest closing tag after p
\* is reached without crossing a line break
NearestClose(s, p, level) ==
    CHOOSE q \in (p + 1)..Len(s) :
        /\ s[q] = CloseTag(level)
        /\ \A j \in (p + 1)..(q - 1) : s[j] # CloseTag(level)

MatchesAt(s, p, level) ==
    /\ s[p] = OpenTag(level)
    /\ \E q \in (p + 1)..Len(s) : s[q] = CloseTag(level)
    /\ \A j \in (p + 1)..(NearestClose(s, p, level) - 1) : s[j] # "\n"

\* the callback given to ReplaceAllStringFunc
RewriteHeading(text, level) ==
    <<OpenIdTag(level)>> \o generateID(text) \o <<EndIdTag>> \o text
        \o <<CloseTag(level)>>

TOCItem(text, level) == [ID |-> generateID(text), Text |-> text, Level |-> level]

\* regexp.ReplaceAllStringFunc over s from position i: the leftmost
\* non-overlapping matches, each rewritten and recorded
RECURSIVE ReplaceAll(_, _, _)
ReplaceAll(s, i, level) ==
    IF \E p \in i..Len(s) : MatchesAt(s, p, level)
    THEN LET p == CHOOSE x \in i..Len(s) :
                      /\ MatchesAt(s, x, level)
                      /\ \A y \in i..(x - 1) : ~MatchesAt(s, y, level)
             q == NearestClose(s, p, level)
             text == SubSeq(s, p + 1, q - 1)
             rest == ReplaceAll(s, q + 1, level)
         IN [out |-> SubSeq(s, i, p - 1) \o RewriteHeading(text, level) \o rest.out,
             toc |-> <<TOCItem(text, level)>> \o rest.toc]
    ELSE [out |-> SubSeq(s, i, Len(s)), toc |-> <<>>]

\* variant: the level-3 pass runs first
processContentWithTOCLevel3First(content) ==
    LET h3 == ReplaceAll(content, 1, 3)
        h2 == ReplaceAll(h3.out, 1, 2)
    IN [content |-> h2.out, toc |-> h3.toc \o h2.toc]

processContentWithTOC(content) ==
    LET h2 == ReplaceAll(content, 1, 2)
        h3 == ReplaceAll(h2.out, 1, 3)
    IN [content |-> h3.out, toc |-> h2.toc \o h3.toc]

----------------------------------------------------------------------------
(* Reading time *)

\* whitespace structure of one token: a rewritten opening tag holds a space
TokenClasses(tok) == IF IsSpace(tok) THEN <<"s">>
                     ELSE IF IsOpenIdTag(tok) THEN <<"w", "s", "w">>
                     ELSE <<"w">>

RECURSIVE Classes(_)
Classes(s) == IF s = <<>> THEN <<>> ELSE TokenClasses(Head(s)) \o Classes(Tail(s))

\* len(strings.Fields(s)): the maximal runs of non-space characters
FieldCount(s) ==
    LET c == Classes(s)
    IN Cardinality({i \in 1..Len(c) : c[i] = "w" /\ (i = 1 \/ c[i - 1] = "s")})

WordsPerMinute == 200

\* variant: the quotient without the floor at one minute
ReadTimeNoFloor(w) == w \div WordsPerMinute

\* int(math.Max(float64(words)/200, 1.0)): the quotient words/200 is compared
\* with 1 as a fraction, and the conversion to int truncates
ReadTime(w) ==
    IF w > WordsPerMinute THEN w \div WordsPerMinute ELSE 1

----------------------------------------------------------------------------
(* The content directories *)

\* the slugs of posts/, in the lexical order in which a walk reads them
SlugSeq == <<(<<"a">>), (<<"b">>), (<<"c">>)>>
Slugs == {SlugSeq[i] : i \in 1..Len(SlugSeq)}

\* the slugs of collections/, in walk order
CollSeq == <<(<<"c">>)>>
CollSlugs == {CollSeq[i] : i \in 1..Len(CollSeq)}

DateChars == <<"1", "2", "3", "4", "5", "6", "7", "8", "9">>
DayStr(d) == <<DateChars[d]>>
\* the values of a post's date metadata; EmptyStr is "no date line"
DateStrs == {EmptyStr} \cup {DayStr(d) : d \in 1..MaxDate}

Absent == [st |-> "absent", date |-> EmptyStr, coll |-> EmptyStr]
Unreadable == [st |-> "unreadable", date |-> EmptyStr, coll |-> EmptyStr]
PostFileStates ==
    {Absent, Unreadable} \cup
    {[st |-> "file", date |-> d, coll |-> c] :
        d \in DateStrs, c \in {EmptyStr} \cup CollSlugs}

CollFileStates == {"absent", "unreadable", "file"}

MetaLine(key, val) == <<"<!--", KeyToken[key]>> \o val \o <<"-->">>

BodyLines == << <<"<h2>", "A", "</h2>">> >>

\* the lines of posts/<slug>.html
PostLines(f) ==
    (IF f.date # EmptyStr THEN <<MetaLine("date", f.date)>> ELSE <<>>)
        \o (IF f.coll # EmptyStr THEN <<MetaLine("collection", f.coll)>> ELSE <<>>)
        \o BodyLines

CollTitle(slug) == <<"Z">>

\* the lines of collections/<slug>.html
CollLines(slug) ==
    <<MetaLine("title", CollTitle(slug)), <<" ", "<h2>", "d", "</h2>", " ">> >>

\* filepath.WalkDir over a flat content root: the root entry, then either the
\* error of reading it or its files in lexical order
RECURSIVE FileEntries(_, _)
FileEntries(names, present) ==
    IF names = <<>> THEN <<>>
    ELSE (IF Head(names) \in present
          THEN <<[slug |-> Head(names), isDir |-> FALSE, err |-> FALSE]>>
          ELSE <<>>) \o FileEntries(Tail(names), present)

WalkDir(dirOk, names, present) ==
    <<[slug |-> EmptyStr, isDir |-> TRUE, err |-> FALSE]>> \o
    (IF dirOk THEN FileEntries(names, present)
     ELSE <<[slug |-> EmptyStr, isDir |-> TRUE, err |-> TRUE]>>)

WalkPostsDir ==
    WalkDir(postsDirOk, SlugSeq, {x \in Slugs : postFiles[x].st # "absent"})

WalkCollsDir ==
    WalkDir(collsDirOk, CollSeq, {x \in CollSlugs : collFiles[x] # "absent"})

----------------------------------------------------------------------------
(* sort.Slice *)

\* the less function handed to sort.Slice: by the string field `field`,
\* ascending (x < y) or descending (x > y)
FieldLess(x, y, field, desc) ==
    IF desc THEN StrLess(y[field], x[field]) ELSE StrLess(x[field], y[field])

\* insertion of x into the sorted prefix s, as insertion sort moves it left
\* past every element it is less than
RECURSIVE InsertSorted(_, _, _, _)
InsertSorted(s, x, field, desc) ==
    IF s # <<>> /\ FieldLess(x, s[Len(s)], field, desc)
    THEN InsertSorted(SubSeq(s, 1, Len(s) - 1), x, field, desc) \o <<s[Len(s)]>>
    ELSE s \o <<x>>

RECURSIVE InsertionSort(_, _, _)
InsertionSort(s, field, desc) ==
    IF s = <<>> THEN <<>>
    ELSE InsertSorted(InsertionSort(SubSeq(s, 1, Len(s) - 1), field, desc),
                      s[Len(s)], field, desc)

\* sort.Slice sorts by the less function and does not promise to be stable:
\* equal elements may be reversed from their original order.  The outcome is a
\* function of the input, fixed for the build by tiesReversed.
SortSlice(s, field, desc) ==
    IF tiesReversed THEN InsertionSort(Reverse(s), field, desc)
    ELSE InsertionSort(s, field, desc)

----------------------------------------------------------------------------
(* Collection ranker *)

\* os.ReadFile(posts/<slug>.html) succeeds
PostReadable(slug) == slug \in Slugs /\ postFiles[slug].st = "file"

\* string(content) of posts/<slug>.html
PostContent(slug) == JoinLines(PostLines(postFiles[slug]))

\* the walk callback of getCollectionPosition over the entries still to visit
RECURSIVE CollectInCollection(_, _)
CollectInCollection(entries, collectionSlug) ==
    IF entries = <<>> THEN <<>>
    ELSE LET d == Head(entries)
             rest == CollectInCollection(Tail(entries), collectionSlug)
         IN IF d.err \/ d.isDir THEN rest
            ELSE IF ~PostReadable(d.slug) THEN rest
            ELSE LET lines == SplitLines(PostContent(d.slug))
                 IN IF extractMeta(lines, "collection") = collectionSlug
                    THEN <<[slug |-> d.slug, date |-> extractMeta(lines, "date")]>>
                             \o rest
                    ELSE rest

\* variant: the position is counted from the dates, 1 + the entries that are
\* strictly older than the slug's
IndexOfSlugByDate(sorted, currentSlug) ==
    IF \E i \in 1..Len(sorted) : sorted[i].slug = currentSlug
    THEN LET k == CHOOSE i \in 1..Len(sorted) : sorted[i].slug = currentSlug
         IN 1 + Cardinality({i \in 1..Len(sorted) :
                                StrLess(sorted[i].date, sorted[k].date)})
    ELSE 0

\* the 1-based position of the first entry with the slug, or 0
IndexOfSlug(sorted, currentSlug) ==
    IF \E i \in 1..Len(sorted) : sorted[i].slug = currentSlug
    THEN CHOOSE i \in 1..Len(sorted) :
             /\ sorted[i].slug = currentSlug
             /\ \A j \in 1..(i - 1) : sorted[j].slug # currentSlug
    ELSE 0

\* variant: the siblings are sorted newest first
getCollectionPositionNewestFirst(currentSlug, collectionSlug, currentDate) ==
    LET postsInCollection == CollectInCollection(WalkPostsDir, collectionSlug)
        sorted == SortSlice(postsInCollection, "date", TRUE)
    IN [index |-> IndexOfSlug(sorted, currentSlug), total |-> Len(sorted)]

getCollectionPosition(currentSlug, collectionSlug, currentDate) ==
    LET postsInCollection == CollectInCollection(WalkPostsDir, collectionSlug)
        sorted == SortSlice(postsInCollection, "date", FALSE)
    IN [index |-> IndexOfSlug(sorted, currentSlug), total |-> Len(sorted)]

----------------------------------------------------------------------------
(* Content assembler *)

ZeroPost == [Slug |-> EmptyStr, Title |-> EmptyStr, Description |-> EmptyStr,
             RawDate |-> EmptyStr, Collection |-> EmptyStr,
             CollectionTitle |-> EmptyStr, CollectionDescription |-> EmptyStr,
             CollectionIndex |-> 0, CollectionTotal |-> 0,
             Content |-> EmptyStr, ReadTimeInMinutes |-> 0, TOC |-> <<>>]

\* os.ReadFile(collections/<slug>.html) succeeds
CollReadable(slug) == slug \in CollSlugs /\ collFiles[slug] = "file"

\* the Post that loadPost assembles from the lines of the file, the collection
\* file when it could be read (haveFile) and the ranker's answer
AssemblePost(slug, lines, haveFile, pos) ==
    LET processed == processContentWithTOC(extractContent(lines))
        metaDate == extractMeta(lines, "date")
        collectionSlug == extractMeta(lines, "collection")
        collectionLines == SplitLines(JoinLines(CollLines(collectionSlug)))
        title == extractMeta(lines, "title")
    IN [Slug |-> slug,
        Title |-> IF title = EmptyStr THEN slug ELSE title,
        Description |-> extractMeta(lines, "description"),
        RawDate |-> IF metaDate = EmptyStr THEN today ELSE metaDate,
        Collection |-> collectionSlug,
        CollectionTitle |->
            IF haveFile THEN extractMeta(collectionLines, "title") ELSE EmptyStr,
        CollectionDescription |->
            IF haveFile THEN TrimSpace(extractContent(collectionLines))
            ELSE EmptyStr,
        CollectionIndex |-> pos.index,
        CollectionTotal |-> pos.total,
        Content |-> processed.content,
        ReadTimeInMinutes |-> ReadTime(FieldCount(processed.content)),
        TOC |-> processed.toc]

NoPosition == [index |-> 0, total |-> 0]

\* variant: the ranker runs only when the collection file could be read
loadPostRanksKnownCollection(slug) ==
    IF ~PostReadable(slug) THEN [err |-> TRUE, post |-> ZeroPost]
    ELSE
    LET lines == SplitLines(PostContent(slug))
        metaDate == extractMeta(lines, "date")
        rawDate == IF metaDate = EmptyStr THEN today ELSE metaDate
        collectionSlug == extractMeta(lines, "collection")
        haveFile == collectionSlug # EmptyStr /\ CollReadable(collectionSlug)
        pos == IF haveFile
               THEN getCollectionPosition(slug, collectionSlug, rawDate)
               ELSE NoPosition
    IN [err |-> FALSE, post |-> AssemblePost(slug, lines, haveFile, pos)]

loadPost(slug) ==
    IF ~PostReadable(slug) THEN [err |-> TRUE, post |-> ZeroPost]
    ELSE
    LET lines == SplitLines(PostContent(slug))
        metaDate == extractMeta(lines, "date")
        rawDate == IF metaDate = EmptyStr THEN today ELSE metaDate
        collectionSlug == extractMeta(lines, "collection")
        haveFile == collectionSlug # EmptyStr /\ CollReadable(collectionSlug)
        pos == IF collectionSlug # EmptyStr
               THEN getCollectionPosition(slug, collectionSlug, rawDate)
               ELSE NoPosition
    IN [err |-> FALSE, post |-> AssemblePost(slug, lines, haveFile, pos)]

----------------------------------------------------------------------------
(* Repository scanner *)

\* the walk callback of loadPosts over the entries still to visit; acc is the
\* posts appended so far.  An error returned by the callback ends the walk.
RECURSIVE WalkLoadPosts(_, _)
RECURSIVE PostVisited(_, _, _)

\* the callback once loadPost has returned r for the entry: the error ends the
\* walk, the post is appended and the walk goes on over the entries left
PostVisited(r, entries, acc) ==
    IF r.err THEN [err |-> TRUE, posts |-> acc]
    ELSE WalkLoadPosts(entries, acc \o <<r.post>>)

WalkLoadPosts(entries, acc) ==
    IF entries = <<>> THEN [err |-> FALSE, posts |-> acc]
    ELSE LET d == Head(entries)
         IN IF d.err THEN [err |-> TRUE, posts |-> acc]
            ELSE IF d.isDir THEN WalkLoadPosts(Tail(entries), acc)
            ELSE PostVisited(loadPost(d.slug), Tail(entries), acc)

\* variant: the posts appended before the error are returned with it
PostsResultPartial(w) ==
    IF w.err THEN [err |-> TRUE, posts |-> SortSlice(w.posts, "RawDate", TRUE)]
    ELSE [err |-> FALSE, posts |-> SortSlice(w.posts, "RawDate", TRUE)]

\* what loadPosts returns once the walk has ended
PostsResult(w) ==
    IF w.err THEN [err |-> TRUE, posts |-> <<>>]
    ELSE [err |-> FALSE, posts |-> SortSlice(w.posts, "RawDate", TRUE)]

loadPosts == PostsResult(WalkLoadPosts(WalkPostsDir, <<>>))

RECURSIVE CollapseSpace(_)
CollapseSpace(s) ==
    IF s = <<>> THEN <<>>
    ELSE IF IsSpace(Head(s))
         THEN (IF Len(s) >= 2 /\ IsSpace(s[2]) THEN <<>> ELSE <<" ">>)
                  \o CollapseSpace(Tail(s))
    ELSE <<Head(s)>> \o CollapseSpace(Tail(s))

stripHTML(s) == TrimSpace(CollapseSpace(StripTags(s)))

ZeroCollection == [Slug |-> EmptyStr, Title |-> EmptyStr, Description |-> EmptyStr,
                   DescriptionText |-> EmptyStr, Posts |-> <<>>]

\* variant: every post of the list is taken as a member
FilterByCollectionAll(posts, slug) == posts

\* the posts of the list whose Collection equals the slug, in list order
RECURSIVE FilterByCollection(_, _)
FilterByCollection(posts, slug) ==
    IF posts = <<>> THEN <<>>
    ELSE (IF Head(posts).Collection = slug THEN <<Head(posts)>> ELSE <<>>)
             \o FilterByCollection(Tail(posts), slug)

\* the Collection that loadCollection assembles from the lines of the file
\* and what loadPosts returned
AssembleCollection(slug, lines, posts) ==
    LET description == TrimSpace(extractContent(lines))
    IN IF posts.err THEN [err |-> TRUE, collection |-> ZeroCollection]
       ELSE [err |-> FALSE,
             collection |-> [Slug |-> slug,
                             Title |-> extractMeta(lines, "title"),
                             Description |-> description,
                             DescriptionText |-> stripHTML(description),
                             Posts |-> FilterByCollection(posts.posts, slug)]]

loadCollection(slug) ==
    IF ~CollReadable(slug) THEN [err |-> TRUE, collection |-> ZeroCollection]
    ELSE AssembleCollection(slug, SplitLines(JoinLines(CollLines(slug))), loadPosts)

RECURSIVE WalkLoadCollections(_, _)
RECURSIVE CollectionVisited(_, _, _)

\* the callback once loadCollection has returned r for the entry
CollectionVisited(r, entries, acc) ==
    IF r.err THEN [err |-> TRUE, collections |-> acc]
    ELSE WalkLoadCollections(entries, acc \o <<r.collection>>)

WalkLoadCollections(entries, acc) ==
    IF entries = <<>> THEN [err |-> FALSE, collections |-> acc]
    ELSE LET d == Head(entries)
         IN IF d.err THEN [err |-> TRUE, collections |-> acc]
            ELSE IF d.isDir THEN WalkLoadCollections(Tail(entries), acc)
            ELSE CollectionVisited(loadCollection(d.slug), Tail(entries), acc)

\* what loadCollections returns once the walk has ended
CollectionsResult(w) ==
    IF w.err THEN [err |-> TRUE, collections |-> <<>>]
    ELSE [err |-> FALSE, collections |-> SortSlice(w.collections, "Title", FALSE)]

loadCollections == CollectionsResult(WalkLoadCollections(WalkCollsDir, <<>>))

----------------------------------------------------------------------------
(* The pipeline over a content directory.  The pipeline is synchronous: a  *)
(* call runs to completion and returns before the next one starts; the     *)
(* list a caller got from loadPosts stays with it while it makes one more  *)
(* call.                                                                   *)

PureIdle ==
    /\ words = 0
    /\ readTime = <<>>
    /\ body = <<>>
    /\ tocOut = None
    /\ contentOut = None

Init ==
    /\ postsDirOk \in BOOLEAN
    /\ postFiles \in [Slugs -> PostFileStates]
    /\ ~postsDirOk => \A x \in Slugs : postFiles[x] = Absent
    /\ collsDirOk \in BOOLEAN
    /\ collFiles \in [CollSlugs -> CollFileStates]
    /\ ~collsDirOk => \A x \in CollSlugs : collFiles[x] = "absent"
    /\ today = DayStr(1)
    /\ tiesReversed \in BOOLEAN
    /\ lastPosts = None
    /\ last = None
    /\ PureIdle

\* midnight passes between two calls
Tick ==
    /\ last = None
    /\ today = DayStr(1)
    /\ today' = DayStr(2)
    /\ UNCHANGED <<dirVars, lastPosts, last, pureVars>>

LoadPosts ==
    /\ last = None
    /\ lastPosts = None
    /\ \E r \in {loadPosts} :
           lastPosts' = [op |-> "loadPosts", day |-> today,
                         err |-> r.err, posts |-> r.posts]
    /\ UNCHANGED <<dirVars, today, last, pureVars>>

LoadPost(slug) ==
    /\ last = None
    /\ \E r \in {loadPost(slug)} :
           last' = [op |-> "loadPost", slug |-> slug, day |-> today,
                    err |-> r.err, post |-> r.post]
    /\ UNCHANGED <<dirVars, today, lastPosts, pureVars>>

LoadCollection(slug) ==
    /\ last = None
    /\ \E r \in {loadCollection(slug)} :
           last' = [op |-> "loadCollection", slug |-> slug, day |-> today,
                    err |-> r.err, collection |-> r.collection]
    /\ UNCHANGED <<dirVars, today, lastPosts, pureVars>>

LoadCollections ==
    /\ last = None
    /\ \E r \in {loadCollections} :
           last' = [op |-> "loadCollections", day |-> today,
                    err |-> r.err, collections |-> r.collections]
    /\ UNCHANGED <<dirVars, today, lastPosts, pureVars>>

GetCollectionPosition(currentSlug, collectionSlug, currentDate) ==
    /\ last = None
    /\ last' = [op |-> "getCollectionPosition", slug |-> currentSlug,
                coll |-> collectionSlug,
                pos |-> getCollectionPosition(currentSlug, collectionSlug, currentDate)]
    /\ UNCHANGED <<dirVars, today, lastPosts, pureVars>>

\* the caller is done with what it was handed
Return ==
    /\ last # None
    /\ last' = None
    /\ lastPosts' = None
    /\ UNCHANGED <<dirVars, today, pureVars>>

\* the repository scanner and the collection loader
Next ==
    \/ Tick
    \/ LoadPosts
    \/ \E slug \in CollSlugs : LoadCollection(slug)
    \/ LoadCollections
    \/ Return

Spec == Init /\ [][Next]_vars

\* the post loader and the collection ranker
NextPost ==
    \/ Tick
    \/ \E slug \in Slugs : LoadPost(slug)
    \/ \E currentSlug \in Slugs, collectionSlug \in CollSlugs :
           GetCollectionPosition(currentSlug, collectionSlug, today)
    \/ Return

SpecPost == Init /\ [][NextPost]_vars

----------------------------------------------------------------------------
(* The pure stages, each applied to inputs drawn from a bounded set *)

RECURSIVE SeqsUpTo(_, _)
SeqsUpTo(S, n) ==
    IF n = 0 THEN {<<>>}
    ELSE LET shorter == SeqsUpTo(S, n - 1)
         IN shorter \cup {Append(q, x) : q \in shorter, x \in S}

EmptyDir ==
    /\ postsDirOk = TRUE
    /\ postFiles = [x \in Slugs |-> Absent]
    /\ collsDirOk = TRUE
    /\ collFiles = [x \in CollSlugs |-> "absent"]
    /\ today = DayStr(1)
    /\ tiesReversed = FALSE
    /\ lastPosts = None
    /\ last = None

InitRead ==
    /\ EmptyDir
    /\ words \in 0..MaxWords
    /\ readTime = <<>>
    /\ body = <<>>
    /\ tocOut = None
    /\ contentOut = None

\* lines 631-635 of loadPost on a body of `words` fields
ComputeReadTime ==
    /\ readTime = <<>>
    /\ readTime' = <<ReadTime(words)>>
    /\ UNCHANGED <<dirVars, today, lastPosts, last, words, body, tocOut, contentOut>>

NextRead == ComputeReadTime

SpecRead == InitRead /\ [][NextRead]_vars

HeadingTokens == {"<h2>", "</h2>", "<h3>", "</h3>", "A", "\n"}

InitTOC ==
    /\ EmptyDir
    /\ words = 0
    /\ readTime = <<>>
    /\ body \in SeqsUpTo(HeadingTokens, MaxBodyLen)
    /\ tocOut = None
    /\ contentOut = None

ProcessContentWithTOC ==
    /\ tocOut = None
    /\ LET r == processContentWithTOC(body)
       IN tocOut' = [op |-> "toc", content |-> r.content, toc |-> r.toc]
    /\ UNCHANGED <<dirVars, today, lastPosts, last, words, readTime, body, contentOut>>

NextTOC == ProcessContentWithTOC

SpecTOC == InitTOC /\ [][NextTOC]_vars

ContentTokens == {"<!--", "-->", "title:", "collection:", "p", "\n"}

InitContent ==
    /\ EmptyDir
    /\ words = 0
    /\ readTime = <<>>
    /\ body \in SeqsUpTo(ContentTokens, MaxContentLen)
    /\ tocOut = None
    /\ contentOut = None

ExtractContent ==
    /\ contentOut = None
    /\ contentOut' = [op |-> "content", text |-> extractContent(SplitLines(body))]
    /\ UNCHANGED <<dirVars, today, lastPosts, last, words, readTime, body, tocOut>>

NextContent == ExtractContent

SpecContent == InitContent /\ [][NextContent]_vars

----------------------------------------------------------------------------
(* Properties of the repository scanner (Spec) *)

SlugIdx(slug) == CHOOSE i \in 1..Len(SlugSeq) : SlugSeq[i] = slug

PostsLoaded == lastPosts # None /\ ~lastPosts.err

\* the post files a walk of posts/ discovers
Discovered == {x \in Slugs : postsDirOk /\ postFiles[x].st # "absent"}

\* the readable post files whose collection metadata is c
Tagged(c) == {x \in Slugs : postFiles[x].st = "file" /\ postFiles[x].coll = c}

\* C1: the list loadPosts returns is sorted by RawDate descending, and posts
\* with equal RawDate keep the order in which the walk discovered their files.
C1_SortedAndStable ==
    PostsLoaded =>
        \A i, j \in 1..Len(lastPosts.posts) :
            i < j =>
                /\ ~StrLess(lastPosts.posts[i].RawDate, lastPosts.posts[j].RawDate)
                /\ lastPosts.posts[i].RawDate = lastPosts.posts[j].RawDate
                       => SlugIdx(lastPosts.posts[i].Slug) < SlugIdx(lastPosts.posts[j].Slug)

\* the ordering that sort.Slice does guarantee: RawDate descending
SortedByRawDateDesc ==
    PostsLoaded =>
        \A i, j \in 1..Len(lastPosts.posts) :
            i < j => ~StrLess(lastPosts.posts[i].RawDate, lastPosts.posts[j].RawDate)

InLastCollection(p) == p.Collection = last.slug

CollectionLoaded == last.op = "loadCollection" /\ ~last.err

C7_IndexFollowsRawDate ==
    PostsLoaded =>
        \A i, j \in 1..Len(lastPosts.posts) :
            (/\ lastPosts.posts[i].Collection # EmptyStr
             /\ lastPosts.posts[i].Collection = lastPosts.posts[j].Collection
             /\ StrLess(lastPosts.posts[i].RawDate, lastPosts.posts[j].RawDate))
            => lastPosts.posts[i].CollectionIndex < lastPosts.posts[j].CollectionIndex

\* the loads that a walk of posts/ makes fail
PostsWalkFails == ~postsDirOk \/ \E x \in Discovered : postFiles[x].st # "file"

CollsDiscovered == {x \in CollSlugs : collsDirOk /\ collFiles[x] # "absent"}

CollsWalkFails ==
    \/ ~collsDirOk
    \/ \E x \in CollsDiscovered : collFiles[x] # "file"
    \/ (CollsDiscovered # {} /\ PostsWalkFails)

\* C9: loadPosts and loadCollections are all-or-nothing: on a walk error or a
\* failed load they return the error with an empty list, and otherwise exactly
\* one entity per discovered file.
C9_AllOrNothing ==
    /\ lastPosts # None =>
          /\ lastPosts.err <=> PostsWalkFails
          /\ lastPosts.err => lastPosts.posts = <<>>
          /\ ~lastPosts.err =>
                /\ Len(lastPosts.posts) = Cardinality(Discovered)
                /\ \A x \in Discovered :
                       \E i \in 1..Len(lastPosts.posts) : lastPosts.posts[i].Slug = x
    /\ last.op = "loadCollections" =>
          /\ last.err <=> CollsWalkFails
          /\ last.err => last.collections = <<>>
          /\ ~last.err =>
                /\ Len(last.collections) = Cardinality(CollsDiscovered)
                /\ \A x \in CollsDiscovered :
                       \E i \in 1..Len(last.collections) : last.collections[i].Slug = x

\* a post was loaded before the walk hit the file that cannot be read
C9_Witness ==
    /\ lastPosts # None
    /\ lastPosts.err
    /\ postFiles[SlugSeq[1]].st = "file"
    /\ postFiles[SlugSeq[2]].st = "unreadable"
    /\ last.op = "loadCollections"
    /\ last.err
    /\ collFiles[CollSeq[1]] = "file"

SiblingIdx(c) == {i \in 1..Len(lastPosts.posts) : lastPosts.posts[i].Collection = c}

\* C10: in the list of one loadPosts() call, the posts of a collection all
\* carry the number of such posts as CollectionTotal, and their
\* CollectionIndex values are distinct and are exactly 1..CollectionTotal.
C10_IndexesArePermutation ==
    PostsLoaded =>
        \A c \in CollSlugs :
            /\ \A i \in SiblingIdx(c) :
                   lastPosts.posts[i].CollectionTotal = Cardinality(SiblingIdx(c))
            /\ {lastPosts.posts[i].CollectionIndex : i \in SiblingIdx(c)}
                   = 1..Cardinality(SiblingIdx(c))
            /\ \A i, j \in SiblingIdx(c) :
                   i # j => lastPosts.posts[i].CollectionIndex
                               # lastPosts.posts[j].CollectionIndex

\* three siblings, two of which share their date metadata
C10_Witness ==
    /\ PostsLoaded
    /\ Cardinality(SiblingIdx(CollSeq[1])) = 3
    /\ postFiles[SlugSeq[1]].date = postFiles[SlugSeq[2]].date
    /\ postFiles[SlugSeq[1]].date # postFiles[SlugSeq[3]].date

----------------------------------------------------------------------------
(* Properties of the post loader and the collection ranker (SpecPost) *)

DistinctDates(c) ==
    \A x, y \in Tagged(c) : x # y => postFiles[x].date # postFiles[y].date

EarlierTagged(c, x) ==
    {y \in Tagged(c) : StrLess(postFiles[y].date, postFiles[x].date)}

\* the ranker was asked about a post file that names the collection
RankedOwnCollection ==
    /\ last.op = "getCollectionPosition"
    /\ last.slug \in Tagged(last.coll)

PostLoadReturned == last.op = "loadPost"

\* C8: loadPost fails only when the post file cannot be read; a post naming a
\* collection whose file cannot be read loads with the slug kept, title and
\* description empty and the ranker's index and total; a post naming no
\* collection has all five collection fields empty or zero.
C8_BestEffortCollection ==
    PostLoadReturned =>
        /\ last.err <=> postFiles[last.slug].st # "file"
        /\ (~last.err /\ postFiles[last.slug].coll # EmptyStr
                /\ collFiles[postFiles[last.slug].coll] # "file") =>
              /\ last.post.Collection = postFiles[last.slug].coll
              /\ last.post.CollectionTitle = EmptyStr
              /\ last.post.CollectionDescription = EmptyStr
              /\ last.post.CollectionTotal = Cardinality(Tagged(last.post.Collection))
              /\ last.post.CollectionIndex >= 1
              /\ last.post.CollectionIndex <= last.post.CollectionTotal
        /\ (~last.err /\ postFiles[last.slug].coll = EmptyStr) =>
              /\ last.post.Collection = EmptyStr
              /\ last.post.CollectionTitle = EmptyStr
              /\ last.post.CollectionDescription = EmptyStr
              /\ last.post.CollectionIndex = 0
              /\ last.post.CollectionTotal = 0

\* a post of a collection of two whose collection file does not exist
C8_Witness ==
    /\ PostLoadReturned
    /\ ~last.err
    /\ last.post.Collection = CollSeq[1]
    /\ collFiles[CollSeq[1]] = "absent"
    /\ last.post.CollectionIndex = 2
    /\ last.post.CollectionTotal = 2

----------------------------------------------------------------------------
(* Properties of the reading time (SpecRead) *)

\* C4: the reading time is max(1, floor(w / 200)) for a body of w fields:
\* at least 1; 1 for 10 and for 200 words, 2 for 401.
C4_ReadTimeFloorAtOne ==
    readTime # <<>> =>
        /\ readTime[1] = (IF words \div 200 >= 1 THEN words \div 200 ELSE 1)
        /\ readTime[1] >= 1
        /\ words = 10 => readTime[1] = 1
        /\ words = 200 => readTime[1] = 1
        /\ words = 401 => readTime[1] = 2

C4_Witness == words = 401 /\ readTime = <<2>>

----------------------------------------------------------------------------
(* Properties of the heading indexer (SpecTOC) *)

\* the texts of the leftmost non-overlapping matches of <hN>(.*?)</hN>
RECURSIVE MatchTexts(_, _, _)
MatchTexts(s, i, level) ==
    IF i > Len(s) THEN <<>>
    ELSE IF MatchesAt(s, i, level)
         THEN <<SubSeq(s, i + 1, NearestClose(s, i, level) - 1)>>
                  \o MatchTexts(s, NearestClose(s, i, level) + 1, level)
    ELSE MatchTexts(s, i + 1, level)

\* the identifiers carried by the rewritten opening tags of a level, in
\* document order
RECURSIVE IdsInOutput(_, _)
IdsInOutput(s, level) ==
    IF s = <<>> THEN <<>>
    ELSE IF Head(s) = OpenIdTag(level)
         THEN LET k == CHOOSE i \in 2..Len(s) :
                           s[i] = EndIdTag /\ \A j \in 2..(i - 1) : s[j] # EndIdTag
              IN <<SubSeq(s, 2, k - 1)>> \o IdsInOutput(SubSeq(s, k + 1, Len(s)), level)
    ELSE IdsInOutput(Tail(s), level)

\* C5: the outline lists the level-2 entries before the level-3 entries, each
\* group in document order, one entry per matched heading, and each matched
\* heading is rewritten to carry its entry's identifier.
C5_OutlineInPassOrder ==
    tocOut # None =>
        LET toc == tocOut.toc
            h2 == MatchTexts(body, 1, 2)
            h3 == MatchTexts(body, 1, 3)
        IN /\ Len(toc) = Len(h2) + Len(h3)
           /\ \A i \in 1..Len(toc) :
                  toc[i].Level = (IF i <= Len(h2) THEN 2 ELSE 3)
           /\ \A i \in 1..Len(h2) : toc[i].Text = h2[i]
           /\ \A i \in 1..Len(h3) :
                  StripTags(toc[Len(h2) + i].Text) = StripTags(h3[i])
           /\ IdsInOutput(tocOut.content, 2) = [i \in 1..Len(h2) |-> toc[i].ID]
           /\ IdsInOutput(tocOut.content, 3) = [i \in 1..Len(h3) |-> toc[Len(h2) + i].ID]

\* an h3 heading followed by an h2 heading: the h2 entry comes first
C5_Witness ==
    /\ tocOut # None
    /\ body = <<"<h3>", "</h3>", "<h2>", "A", "</h2>">>
    /\ Len(tocOut.toc) = 2
    /\ tocOut.toc[1].Level = 2
    /\ tocOut.toc[2].Level = 3

----------------------------------------------------------------------------
(* Properties of the content extractor (SpecContent) *)

IsKey(tok) == \E k \in 1..Len(metaKeys) : tok = metaKeys[k]

\* position i of the line lies inside an HTML comment opened on the line
InsideComment(line, i) ==
    \E j \in 1..(i - 1) :
        /\ line[j] = "<!--"
        /\ \A k \in (j + 1)..(i - 1) : line[k] # "-->"

KeyInsideComment(line) ==
    \E i \in 1..Len(line) : IsKey(line[i]) /\ InsideComment(line, i)

KeepsClaimed(line) == ~KeyInsideComment(line)

\* C6 as stated: extractContent removes every line that holds a reserved key
\* inside an HTML comment, wherever it occurs, and returns all other lines
\* verbatim and in order, joined by newlines.
C6_DropsKeyInsideComment ==
    contentOut # None =>
        contentOut.text = JoinLines(SelectSeq(SplitLines(body), KeepsClaimed))

CommentLineWithKey(line) ==
    /\ line # <<>>
    /\ Head(line) = "<!--"
    /\ \E i \in 1..Len(line) : IsKey(line[i])

KeepsAmended(line) == ~CommentLineWithKey(line)

\* C6 amended: extractContent removes exactly the lines that begin with <!--
\* and hold a reserved key anywhere in the line, and returns all other lines
\* verbatim and in order, joined by newlines.
C6_DropsCommentLineWithKey ==
    contentOut # None =>
        contentOut.text = JoinLines(SelectSeq(SplitLines(body), KeepsAmended))

\* a metadata line that follows a body line is removed
C6_Witness ==
    /\ contentOut # None
    /\ body = <<"p", "\n", "<!--", "title:", "-->">>
    /\ contentOut.text = <<"p">>

====
